---------------------------- MODULE Spec2Model ----------------------------
(***************************************************************************)
(* A model of the Gaussian belief propagation core of src/gbp/gbp.py:     *)
(* FactorGraph, VariableNode and Factor.                                   *)
(*                                                                         *)
(* Numbers.  The program computes with numpy float64 arrays.  The model    *)
(* computes with exact rationals <<n, d>> in lowest terms (d > 0); a       *)
(* result whose numerator or denominator leaves -MaxNum..MaxNum is the     *)
(* value OVF, and a step that would store OVF is outside the model's       *)
(* bounds.  np.linalg.inv raises LinAlgError exactly when the matrix is    *)
(* singular; that is the error outcome "NonInvertible".                    *)
(*                                                                         *)
(* Dimensions.  Every variable has dofs = 1 and every measurement is a     *)
(* float, so a variable's eta/lam are scalars, and a factor over k         *)
(* variables (k = 1 or 2) has a k-vector eta and a k x k matrix lam.       *)
(***************************************************************************)
EXTENDS Integers, Sequences, FiniteSets, TLC

\* ------------------------------------------------------------------------
\* Bounds of the model
\* ------------------------------------------------------------------------

\* largest numerator / denominator a stored number may have
MaxNum == 30000

\* ------------------------------------------------------------------------
\* Exact rational arithmetic (the model's float)
\* ------------------------------------------------------------------------

Abs(x) == IF x < 0 THEN -x ELSE x

RECURSIVE GCD(_, _)
GCD(a, b) == IF b = 0 THEN a ELSE GCD(b, a % b)

OVF == <<0, 0>>

IsOvf(a) == a[2] = 0

RNorm(n, d) ==
    LET s  == IF d < 0 THEN -1 ELSE 1
        g  == GCD(Abs(n), Abs(d))
        nn == (s * n) \div g
        dd == Abs(d) \div g
    IN  IF Abs(nn) > MaxNum \/ dd > MaxNum THEN OVF ELSE <<nn, dd>>

R(n) == <<n, 1>>

Zero == <<0, 1>>

One == <<1, 1>>

RAdd(a, b) ==
    IF IsOvf(a) \/ IsOvf(b) THEN OVF
    ELSE RNorm(a[1] * b[2] + b[1] * a[2], a[2] * b[2])

RNeg(a) == IF IsOvf(a) THEN OVF ELSE <<-a[1], a[2]>>

RSub(a, b) == RAdd(a, RNeg(b))

RMul(a, b) ==
    IF IsOvf(a) \/ IsOvf(b) THEN OVF
    ELSE RNorm(a[1] * b[1], a[2] * b[2])

\* a / b; dividing by zero has no value here (callers test for it first)
RDiv(a, b) ==
    IF IsOvf(a) \/ IsOvf(b) \/ b[1] = 0 THEN OVF
    ELSE RNorm(a[1] * b[2], a[2] * b[1])

RAbs(a) == <<Abs(a[1]), a[2]>>

\* a > b, for values that are not OVF
RGt(a, b) == a[1] * b[2] > b[1] * a[2]


\* integer square root of a perfect square (np.sqrt of gauss_noise_std**2)
ISqrt(n) == CHOOSE k \in 0..n : k * k = n

RSqrt(a) == <<ISqrt(a[1]), ISqrt(a[2])>>

\* ------------------------------------------------------------------------
\* Program constants
\* ------------------------------------------------------------------------

\* remove_outlier: "if factor_loss > 300"
OutlierThreshold == 300

\* Factor.__init__: mahalanobis_threshold=2
DefaultMahalanobisThreshold == 2

\* Factor.__init__: self.iters_since_relin = 1
InitialItersSinceRelin == 1

\* ------------------------------------------------------------------------
\* The graph the builder wires (ids as in the program: dense from 0)
\* ------------------------------------------------------------------------

VarIDs == {0, 1, 2}

FactorIDs == {0, 1, 2}

\* FactorGraph.var_nodes, in list order
VarOrder == <<0, 1, 2>>

\* Factor.adj_var_nodes of each factor, by variableID, in constructor order:
\* factor 0 is unary on variable 0, factor 1 joins 0 and 1, factor 2 joins
\* 2 and 1 (variable 1 is slot 2 of both binary factors)
AdjVarNodes(f) ==
    CASE f = 0 -> <<0>>
      [] f = 1 -> <<0, 1>>
      [] f = 2 -> <<2, 1>>

\* VariableNode.adj_factors as the builder appends them, factor by factor
BuiltAdjFactors(v) ==
    CASE v = 0 -> <<0, 1>>
      [] v = 1 -> <<1, 2>>
      [] v = 2 -> <<2>>

\* the measurement model of each factor: "quad" is h(x) = x1^2 + x1
\* (nonlinear), "diff" is h(x) = x1 - x2 (linear)
MeasKind(f) == IF f = 0 THEN "quad" ELSE "diff"

\* meas_fn(x, *args)
MeasFn(kind, x) ==
    IF kind = "quad" THEN RAdd(RMul(x[1], x[1]), x[1]) ELSE RSub(x[1], x[2])

\* jac_fn(x, *args), a row vector
JacFn(kind, x) ==
    IF kind = "quad" THEN <<RAdd(RMul(R(2), x[1]), One)>> ELSE <<One, R(-1)>>

\* ------------------------------------------------------------------------
\* Objects
\* ------------------------------------------------------------------------

\* NdimGaussian(1): eta = 0, lam = 0
NdimGaussian == [eta |-> Zero, lam |-> Zero]

ZeroVec(k) == [i \in 1..k |-> Zero]

ZeroMat(k) == [i \in 1..k |-> [j \in 1..k |-> Zero]]

\* VariableNode.__init__, then the builder's prior and adjacency
VariableNode(v, prior) ==
    [variableID |-> v,
     adj_factors |-> BuiltAdjFactors(v),
     mu |-> Zero,
     Sigma |-> Zero,
     belief |-> NdimGaussian,
     prior |-> prior]

\* Factor.__init__
Factor(f, measurement, gauss_noise_std, loss) ==
    LET k == Len(AdjVarNodes(f))
    IN  [factorID |-> f,
         adj_vIDs |-> AdjVarNodes(f),
         adj_beliefs |-> [i \in 1..k |-> NdimGaussian],
         messages |-> [i \in 1..k |-> NdimGaussian],
         factor |-> [eta |-> ZeroVec(k), lam |-> ZeroMat(k)],
         linpoint |-> ZeroVec(k),
         measurement |-> measurement,
         gauss_noise_var |-> RMul(gauss_noise_std, gauss_noise_std),
         adaptive_gauss_noise_var |-> RMul(gauss_noise_std, gauss_noise_std),
         loss |-> loss,
         mahalanobis_threshold |-> R(DefaultMahalanobisThreshold),
         robust_flag |-> FALSE,
         eta_damping |-> Zero,
         iters_since_relin |-> InitialItersSinceRelin]

\* x in seq (Python "in" on a list)
InSeqOf(seq, x) == \E i \in 1..Len(seq) : seq[i] = x

\* list.index(x): the first position holding x
IndexOf(seq, x) ==
    CHOOSE i \in 1..Len(seq) : seq[i] = x /\ \A j \in 1..(i - 1) : seq[j] # x

\* ------------------------------------------------------------------------
\* VariableNode.update_belief
\* A store S is [vn |-> variable objects, fo |-> factor objects, err |-> e];
\* an operation that raised leaves err # "none" and the store as it was at
\* the raise.
\* ------------------------------------------------------------------------

\* The store also carries log, the calls that returned so far inside the
\* running graph operation: [op, id, damping] says that op returned for
\* the factor or variable id (damping: the eta_damping a message
\* computation was given).  S with the event appended unless the call raised.
Logged(S, op, id, damping) ==
    IF S.err # "none" THEN S
    ELSE [S EXCEPT !.log = Append(@, [op |-> op, id |-> id, damping |-> damping])]

\* prior copy plus the incoming message of every adjacent factor, in order
RECURSIVE SumMessages(_, _, _, _, _)
SumMessages(S, v, adj, i, acc) ==
    IF i > Len(adj) THEN acc
    ELSE LET F  == S.fo[adj[i]]
             ix == IndexOf(F.adj_vIDs, v)
         IN  SumMessages(S, v, adj, i + 1,
                 [eta |-> RAdd(acc.eta, F.messages[ix].eta),
                  lam |-> RAdd(acc.lam, F.messages[ix].lam)])

\* (variant) the belief is sent to the first adjacent factor only
SendBelief_FirstOnly(fo, v, adj, i, b) ==
    IF i > Len(adj) THEN fo
    ELSE [fo EXCEPT ![adj[i]].adj_beliefs[IndexOf(fo[adj[i]].adj_vIDs, v)] = b]

\* (variant) belief_ix is not looked up: every variable writes slot 1
RECURSIVE SendBelief_FirstSlot(_, _, _, _, _)
SendBelief_FirstSlot(fo, v, adj, i, b) ==
    IF i > Len(adj) THEN fo
    ELSE SendBelief_FirstSlot([fo EXCEPT ![adj[i]].adj_beliefs[1] = b], v, adj, i + 1, b)

\* "Send belief to adjacent factors"
RECURSIVE SendBelief(_, _, _, _, _)
SendBelief(fo, v, adj, i, b) ==
    IF i > Len(adj) THEN fo
    ELSE LET f  == adj[i]
             ix == IndexOf(fo[f].adj_vIDs, v)
         IN  SendBelief([fo EXCEPT ![f].adj_beliefs[ix] = b], v, adj, i + 1, b)

\* the accumulator update_belief starts from: a copy of the prior
BeliefStart(V) == [eta |-> V.prior.eta, lam |-> V.prior.lam]

\* (variant) no copy taken: "eta += eta_inward" then adds into the prior's arrays
PriorAfterUpdate_NoCopy(V, b) == b

\* the prior object after update_belief: untouched, the sums went into copies
PriorAfterUpdate(V, b) == V.prior

\* (variant) the belief is sent to the factors before Sigma is computed
update_belief_SendFirst(S, v) ==
    LET V  == S.vn[v]
        b  == SumMessages(S, v, V.adj_factors, 1, BeliefStart(V))
        V1 == [V EXCEPT !.belief = b]
        fo == SendBelief(S.fo, v, V.adj_factors, 1, b)
    IN  IF IsOvf(b.lam) \/ IsOvf(b.eta) THEN [S EXCEPT !.vn[v] = V1]
        ELSE IF b.lam = Zero
        THEN [S EXCEPT !.vn[v] = V1, !.fo = fo, !.err = "NonInvertible"]
        ELSE [S EXCEPT !.vn[v] = [V1 EXCEPT !.Sigma = RDiv(One, b.lam),
                                            !.mu = RMul(RDiv(One, b.lam), b.eta)],
                       !.fo = fo]

\* VariableNode.update_belief
update_belief(S, v) ==
    LET V  == S.vn[v]
        b  == SumMessages(S, v, V.adj_factors, 1, BeliefStart(V))
        V1 == [V EXCEPT !.belief = b, !.prior = PriorAfterUpdate(V, b)]
    IN  IF IsOvf(b.lam) \/ IsOvf(b.eta)
        THEN [S EXCEPT !.vn[v] = V1]
        ELSE IF b.lam = Zero
        THEN [S EXCEPT !.vn[v] = V1, !.err = "NonInvertible"]
        ELSE LET Sigma == RDiv(One, b.lam)
                 V2    == [V1 EXCEPT !.Sigma = Sigma, !.mu = RMul(Sigma, b.eta)]
             IN  [S EXCEPT !.vn[v] = V2,
                           !.fo = SendBelief(S.fo, v, V.adj_factors, 1, b)]

\* FactorGraph.update_all_beliefs over the variables in the given order,
\* from position i: the loop ends at the first raise
RECURSIVE UpdateBeliefsFrom(_, _, _)
UpdateBeliefsFrom(S, order, i) ==
    IF i > Len(order) \/ S.err # "none" THEN S
    ELSE UpdateBeliefsFrom(Logged(update_belief(S, order[i]), "belief", order[i], Zero),
                           order, i + 1)

update_all_beliefs(S) == UpdateBeliefsFrom(S, VarOrder, 1)

\* ------------------------------------------------------------------------
\* Factor
\* ------------------------------------------------------------------------

RECURSIVE Dot(_, _, _)
Dot(a, b, i) ==
    IF i > Len(a) THEN Zero ELSE RAdd(RMul(a[i], b[i]), Dot(a, b, i + 1))

\* the concatenated means inv(belief.lam) @ belief.eta of adj_beliefs, from
\* slot i on: ok is FALSE when an inverse raised, and means then holds the
\* means computed before it
RECURSIVE BeliefMeans(_, _, _)
BeliefMeans(F, i, acc) ==
    IF i > Len(F.adj_beliefs) THEN [ok |-> TRUE, means |-> acc]
    ELSE IF F.adj_beliefs[i].lam = Zero THEN [ok |-> FALSE, means |-> acc]
    ELSE BeliefMeans(F, i + 1,
             Append(acc, RMul(RDiv(One, F.adj_beliefs[i].lam), F.adj_beliefs[i].eta)))

\* Factor.compute_factor(linpoint=x), update_self=True, float measurement
compute_factor(F, x) ==
    LET kind == MeasKind(F.factorID)
        J    == JacFn(kind, x)
        pred_measurement  == MeasFn(kind, x)
        meas_model_lambda == RDiv(One, F.adaptive_gauss_noise_var)
        k    == Len(F.adj_vIDs)
        rhs  == RSub(RAdd(Dot(J, x, 1), F.measurement), pred_measurement)
    IN  [F EXCEPT
           !.linpoint = x,
           !.factor = [eta |-> [i \in 1..k |-> RMul(RMul(meas_model_lambda, J[i]), rhs)],
                       lam |-> [i \in 1..k |-> [j \in 1..k |->
                                   RMul(meas_model_lambda, RMul(J[i], J[j]))]]]]

\* Factor.compute_factor() with linpoint=None: the linearisation point is
\* built from the adjacent belief means; when an inverse raises, linpoint
\* is left as the list built so far
compute_factor_at_beliefs(S, f) ==
    LET F == S.fo[f]
        m == BeliefMeans(F, 1, <<>>)
    IN  IF m.ok THEN [S EXCEPT !.fo[f] = compute_factor(F, m.means)]
        ELSE [S EXCEPT !.fo[f].linpoint = m.means, !.err = "NonInvertible"]

\* the variance the loss rule gives for Mahalanobis distance d
HuberVar(F, d) ==
    IF RGt(d, F.mahalanobis_threshold)
    THEN RDiv(RMul(F.gauss_noise_var, RMul(d, d)),
              RMul(R(2), RSub(RMul(F.mahalanobis_threshold, d),
                              RMul(<<1, 2>>, RMul(F.mahalanobis_threshold,
                                                  F.mahalanobis_threshold)))))
    ELSE F.gauss_noise_var

ConstantVar(F, d) ==
    IF RGt(d, F.mahalanobis_threshold) THEN RMul(d, d) ELSE F.gauss_noise_var

\* (variant) the factor is multiplied by new / old
RescaleRatio_Inverted(old, new) == RDiv(new, old)

\* old_adaptive_gauss_noise_var / self.adaptive_gauss_noise_var
RescaleRatio(old, new) == RDiv(old, new)

\* Factor.robustify_loss
robustify_loss(S, f) ==
    LET F   == S.fo[f]
        old == F.adaptive_gauss_noise_var
        m   == BeliefMeans(F, 1, <<>>)
        d   == RDiv(RAbs(RSub(F.measurement, MeasFn(MeasKind(f), F.linpoint))),
                    RSqrt(F.gauss_noise_var))
        Rescale(G, new) ==
            LET c == RescaleRatio(old, new)
                k == Len(G.adj_vIDs)
            IN  [G EXCEPT
                   !.adaptive_gauss_noise_var = new,
                   !.factor = [eta |-> [i \in 1..k |-> RMul(G.factor.eta[i], c)],
                               lam |-> [i \in 1..k |-> [j \in 1..k |->
                                           RMul(G.factor.lam[i][j], c)]]]]
    IN  IF F.loss = "None"
        THEN [S EXCEPT !.fo[f] = Rescale(F, F.gauss_noise_var)]
        ELSE IF ~m.ok THEN [S EXCEPT !.err = "NonInvertible"]
        ELSE IF IsOvf(d) THEN [S EXCEPT !.err = "OutOfBounds"]
        ELSE IF F.loss = "huber"
        THEN [S EXCEPT !.fo[f] =
                 Rescale([F EXCEPT !.robust_flag = RGt(d, F.mahalanobis_threshold)],
                         HuberVar(F, d))]
        ELSE IF F.loss = "constant"
        THEN [S EXCEPT !.fo[f] =
                 Rescale([F EXCEPT !.robust_flag = RGt(d, F.mahalanobis_threshold)],
                         ConstantVar(F, d))]
        ELSE \* neither "huber" nor "constant": no branch assigns, none raises
             [S EXCEPT !.fo[f] = Rescale(F, old)]

\* the message to slot v of a factor: the factor times the cavity beliefs
\* of the other slots (belief minus the message last sent there, read from
\* msgs), marginalised onto v and damped against the previous eta in msgs
MessageTo(F, msgs, v, eta_damping) ==
    LET k == Len(F.adj_vIDs)
    IN  IF k = 1
        THEN [ok  |-> TRUE,
              lam |-> F.factor.lam[1][1],
              eta |-> RAdd(RMul(RSub(One, eta_damping), F.factor.eta[1]),
                           RMul(eta_damping, msgs[v].eta))]
        ELSE LET u     == 3 - v
                 eo    == F.factor.eta[v]
                 eno   == RAdd(F.factor.eta[u],
                               RSub(F.adj_beliefs[u].eta, msgs[u].eta))
                 loo   == F.factor.lam[v][v]
                 lono  == F.factor.lam[v][u]
                 lnoo  == F.factor.lam[u][v]
                 lnono == RAdd(F.factor.lam[u][u],
                               RSub(F.adj_beliefs[u].lam, msgs[u].lam))
                 inv   == RDiv(One, lnono)
                 new_message_eta == RSub(eo, RMul(RMul(lono, inv), eno))
             IN  IF lnono = Zero THEN [ok |-> FALSE, lam |-> Zero, eta |-> Zero]
                 ELSE [ok  |-> TRUE,
                       lam |-> RSub(loo, RMul(RMul(lono, inv), lnoo)),
                       eta |-> RAdd(RMul(RSub(One, eta_damping), new_message_eta),
                                    RMul(eta_damping, msgs[v].eta))]

\* (variant) each message is committed as soon as it is computed, so the
\* next one reads it
RECURSIVE CommitEach(_, _, _)
CommitEach(F, v, eta_damping) ==
    IF v > Len(F.adj_vIDs) THEN [ok |-> TRUE, F |-> F]
    ELSE LET m == MessageTo(F, F.messages, v, eta_damping)
         IN  IF ~m.ok THEN [ok |-> FALSE, F |-> F]
             ELSE CommitEach([F EXCEPT !.messages[v] = [eta |-> m.eta, lam |-> m.lam]],
                             v + 1, eta_damping)

compute_messages_InPlace(S, f, eta_damping) ==
    LET r == CommitEach(S.fo[f], 1, eta_damping)
    IN  IF r.ok THEN [S EXCEPT !.fo[f] = r.F]
        ELSE [S EXCEPT !.fo[f] = r.F, !.err = "NonInvertible"]

\* Factor.compute_messages: every message is computed from the messages
\* held at entry, then all are committed; a raise commits none
compute_messages(S, f, eta_damping) ==
    LET F == S.fo[f]
        k == Len(F.adj_vIDs)
        new == [v \in 1..k |-> MessageTo(F, F.messages, v, eta_damping)]
    IN  IF \E v \in 1..k : ~new[v].ok
        THEN [S EXCEPT !.err = "NonInvertible"]
        ELSE [S EXCEPT !.fo[f].messages =
                 [v \in 1..k |-> [eta |-> new[v].eta, lam |-> new[v].lam]]]

\* ------------------------------------------------------------------------
\* FactorGraph
\* ------------------------------------------------------------------------

\* FactorGraph.compute_all_factors, from position i of self.factors
RECURSIVE compute_all_factors(_, _)
compute_all_factors(S, i) ==
    IF i > Len(S.factors) \/ S.err # "none" THEN S
    ELSE compute_all_factors(
             Logged(compute_factor_at_beliefs(S, S.factors[i]), "factor", S.factors[i], Zero),
             i + 1)

\* FactorGraph.robustify_all_factors, from position i of self.factors
RECURSIVE robustify_all_factors(_, _)
robustify_all_factors(S, i) ==
    IF i > Len(S.factors) \/ S.err # "none" THEN S
    ELSE robustify_all_factors(
             Logged(robustify_loss(S, S.factors[i]), "robustify", S.factors[i], Zero),
             i + 1)

\* a^2 + b^2 summed over the entries of linpoint - means
RECURSIVE SqDist(_, _, _)
SqDist(a, b, i) ==
    IF i > Len(a) THEN Zero
    ELSE RAdd(RMul(RSub(a[i], b[i]), RSub(a[i], b[i])), SqDist(a, b, i + 1))

\* np.linalg.norm(a - b) > beta for beta >= 0: some entry alone is farther
\* than beta, or the squares sum to more than beta^2
NormExceeds(a, b, beta) ==
    \/ \E i \in 1..Len(a) : RGt(RAbs(RSub(a[i], b[i])), beta)
    \/ RGt(SqDist(a, b, 1), RMul(beta, beta))

\* the comparison of NormExceeds needs a number outside the model's bounds
NormOvf(a, b, beta) ==
    \/ \E i \in 1..Len(a) : IsOvf(RSub(a[i], b[i]))
    \/ /\ ~\E i \in 1..Len(a) : RGt(RAbs(RSub(a[i], b[i])), beta)
       /\ IsOvf(SqDist(a, b, 1))

\* (variant) the gate without the test of iters_since_relin
MayRelinearise_DriftOnly(F, means, c) == NormExceeds(F.linpoint, means, c.beta)

\* the gate of relinearise_factors:
\* norm(linpoint - adj_belief_means) > beta and iters_since_relin >= min_linear_iters
MayRelinearise(F, means, c) ==
    /\ NormExceeds(F.linpoint, means, c.beta)
    /\ F.iters_since_relin >= c.min_linear_iters

\* iters_since_relin after the factor relinearised
ItersAfterRelin(F) == 0

\* one pass of the loop body of relinearise_factors
relinearise_factor(S, f, c) ==
    LET F == S.fo[f]
        m == BeliefMeans(F, 1, <<>>)
    IN  IF ~m.ok THEN [S EXCEPT !.err = "NonInvertible"]
        ELSE IF NormOvf(F.linpoint, m.means, c.beta) THEN [S EXCEPT !.err = "OutOfBounds"]
        ELSE IF MayRelinearise(F, m.means, c)
        THEN Logged([S EXCEPT !.fo[f] =
                        [compute_factor(F, m.means) EXCEPT
                            !.iters_since_relin = ItersAfterRelin(F),
                            !.eta_damping = Zero]],
                    "relin", f, Zero)
        ELSE Logged([S EXCEPT !.fo[f].iters_since_relin = @ + 1], "linear", f, Zero)

\* FactorGraph.relinearise_factors, from position i of self.factors
RECURSIVE relinearise_factors(_, _, _)
relinearise_factors(S, c, i) ==
    IF ~c.nonlinear_factors THEN S
    ELSE IF i > Len(S.factors) \/ S.err # "none" THEN S
    ELSE relinearise_factors(relinearise_factor(S, S.factors[i], c), c, i + 1)

\* (variant) the damping is re-armed one iteration late
Rearm_Late(F, c) == F.iters_since_relin = c.num_undamped_iters + 1

\* the damping re-arm test of compute_all_messages
Rearm(F, c) == F.iters_since_relin = c.num_undamped_iters

\* one pass of the loop body of compute_all_messages
compute_factor_messages(S, f, c, local_relin) ==
    IF c.nonlinear_factors /\ local_relin
    THEN LET S1 == IF Rearm(S.fo[f], c)
                   THEN [S EXCEPT !.fo[f].eta_damping = c.eta_damping]
                   ELSE S
         IN  Logged(compute_messages(S1, f, S1.fo[f].eta_damping),
                    "messages", f, S1.fo[f].eta_damping)
    ELSE Logged(compute_messages(S, f, c.eta_damping), "messages", f, c.eta_damping)

\* FactorGraph.compute_all_messages, from position i of self.factors
RECURSIVE compute_all_messages(_, _, _, _)
compute_all_messages(S, c, local_relin, i) ==
    IF i > Len(S.factors) \/ S.err # "none" THEN S
    ELSE compute_all_messages(compute_factor_messages(S, S.factors[i], c, local_relin),
                              c, local_relin, i + 1)

\* list.remove(x): the list without its first x
RemoveFirst(seq, x) ==
    LET i == IndexOf(seq, x)
    IN  [j \in 1..(Len(seq) - 1) |-> IF j < i THEN seq[j] ELSE seq[j + 1]]

\* (variant) the threshold itself counted as an outlier
IsOutlier_AtThreshold(loss) == loss >= OutlierThreshold

\* the losses remove_outlier treats as outliers
IsOutlier(loss) == loss > OutlierThreshold

\* first loop of remove_outlier: tmp is the copy of self.factors taken at
\* entry, idx the position in factor_loss_list; the result is
\* [factors |-> self.factors, ids |-> outlier_factor_ids]
RECURSIVE DropOutliers(_, _, _, _)
DropOutliers(tmp, losses, idx, acc) ==
    IF idx > Len(losses) THEN acc
    ELSE IF IsOutlier(losses[idx])
    THEN DropOutliers(tmp, losses, idx + 1,
             [factors |-> RemoveFirst(acc.factors, tmp[idx]),
              ids |-> Append(acc.ids, tmp[idx])])
    ELSE DropOutliers(tmp, losses, idx + 1, acc)

\* second loop of remove_outlier, for one variable:
\*   for adj_factors in var_node.adj_factors:
\*       if adj_factors.factorID in outlier_factor_ids:
\*           var_node.adj_factors.remove(adj_factors)
\* the list iterator holds a position; a removal shifts the rest of the
\* list down while the position still moves on by one
RECURSIVE PruneAdjFactors(_, _, _)
PruneAdjFactors(adj, i, ids) ==
    IF i > Len(adj) THEN adj
    ELSE IF \E j \in 1..Len(ids) : ids[j] = adj[i]
    THEN PruneAdjFactors(RemoveFirst(adj, adj[i]), i + 1, ids)
    ELSE PruneAdjFactors(adj, i + 1, ids)

\* FactorGraph.remove_outlier(factor_loss_list)
remove_outlier(S, losses) ==
    LET d == DropOutliers(S.factors, losses, 1, [factors |-> S.factors, ids |-> <<>>])
    IN  [S EXCEPT
           !.factors = d.factors,
           !.vn = [v \in VarIDs |->
                     [S.vn[v] EXCEPT !.adj_factors = PruneAdjFactors(@, 1, d.ids)]]]

\* compute_factor(linpoint=self.linpoint) on every factor of the graph: the
\* builder linearises each factor at the point it holds
RECURSIVE linearise_at_linpoint(_, _)
linearise_at_linpoint(S, i) ==
    IF i > Len(S.factors) THEN S
    ELSE LET f == S.factors[i]
         IN  linearise_at_linpoint(
                 Logged([S EXCEPT !.fo[f] = compute_factor(S.fo[f], S.fo[f].linpoint)],
                        "factor", f, Zero),
                 i + 1)

\* scipy.linalg.block_diag(lam, x) for a square lam and a 1 x 1 block x
BlockDiag(lam, x) ==
    LET n == Len(lam)
    IN  [i \in 1..(n + 1) |-> [j \in 1..(n + 1) |->
            IF i <= n /\ j <= n THEN lam[i][j]
            ELSE IF i = n + 1 /\ j = n + 1 THEN x ELSE Zero]]

\* the first loop of joint_distribution_inf over var_nodes (order, from
\* position i): eta is a fresh concatenation; lam is a fresh block_diag,
\* except that for variableID 0 it is var_node.prior.lam itself (alias)
RECURSIVE JointPriors(_, _, _, _)
JointPriors(S, order, i, acc) ==
    IF i > Len(order) THEN acc
    ELSE LET prior == S.vn[order[i]].prior
         IN  JointPriors(S, order, i + 1,
                 [eta   |-> Append(acc.eta, prior.eta),
                  lam   |-> IF order[i] = 0 THEN <<<<prior.lam>>>>
                            ELSE BlockDiag(acc.lam, prior.lam),
                  alias |-> order[i] = 0])

\* lam[r, c] += x
MatAdd(lam, r, c, x) == [lam EXCEPT ![r][c] = RAdd(@, x)]

\* "Off diagonal contributions of factor": the inner loop over
\* other_adj_var_node, from slot ofi
RECURSIVE JointOffDiagonal(_, _, _, _, _)
JointOffDiagonal(J, F, order, fi, ofi) ==
    IF ofi > Len(F.adj_vIDs) THEN J
    ELSE IF F.adj_vIDs[ofi] > F.adj_vIDs[fi]
    THEN LET p  == IndexOf(order, F.adj_vIDs[fi])
             po == IndexOf(order, F.adj_vIDs[ofi])
         IN  JointOffDiagonal(
                 [J EXCEPT !.lam = MatAdd(MatAdd(@, p, po, F.factor.lam[fi][ofi]),
                                          po, p, F.factor.lam[ofi][fi])],
                 F, order, fi, ofi + 1)
    ELSE JointOffDiagonal(J, F, order, fi, ofi + 1)

\* the loop over factor.adj_var_nodes, from slot fi
RECURSIVE JointFactor(_, _, _, _)
JointFactor(J, F, order, fi) ==
    IF fi > Len(F.adj_vIDs) THEN J
    ELSE LET p  == IndexOf(order, F.adj_vIDs[fi])
             J1 == [J EXCEPT !.eta[p] = RAdd(@, F.factor.eta[fi]),
                             !.lam = MatAdd(@, p, p, F.factor.lam[fi][fi])]
         IN  JointFactor(JointOffDiagonal(J1, F, order, fi, 1), F, order, fi + 1)

\* the loop over self.factors, from position i
RECURSIVE JointFactors(_, _, _, _)
JointFactors(J, S, order, i) ==
    IF i > Len(S.factors) THEN J
    ELSE JointFactors(JointFactor(J, S.fo[S.factors[i]], order, 1), S, order, i + 1)

\* the (eta, lam) joint_distribution_inf returns
JointOf(S, order) ==
    JointFactors(JointPriors(S, order, 1, [eta |-> <<>>, lam |-> <<>>, alias |-> FALSE]),
                 S, order, 1)

\* lam is still the array var_node.prior.lam of variable 0 when the factors
\* are added into it
JointAliasesPrior(S, order) == JointOf(S, order).alias

\* FactorGraph.joint_distribution_inf on a graph whose var_nodes list is
\* order: what it leaves in the graph (the "+=" on lam write through the alias)
joint_distribution_inf(S, order) ==
    LET J == JointOf(S, order)
    IN  IF \/ \E i \in 1..Len(J.eta) : IsOvf(J.eta[i])
           \/ \E i, j \in 1..Len(J.lam) : IsOvf(J.lam[i][j])
        THEN [S EXCEPT !.err = "OutOfBounds"]
        ELSE IF JointAliasesPrior(S, order)
        THEN Logged([S EXCEPT !.vn[0].prior.lam = J.lam[1][1]], "joint", Len(J.lam), Zero)
        ELSE Logged(S, "joint", Len(J.lam), Zero)

\* (variant) the messages are computed before the factors are robustified
\* and relinearised
SyncPlan_MessagesFirst(c, local_relin, robustify) ==
    <<"messages">>
    \o (IF robustify THEN <<"robustify">> ELSE <<>>)
    \o (IF c.nonlinear_factors /\ local_relin THEN <<"relinearise">> ELSE <<>>)
    \o <<"beliefs">>

\* the calls of FactorGraph.synchronous_iteration, in order
SyncPlan(c, local_relin, robustify) ==
    (IF robustify THEN <<"robustify">> ELSE <<>>)
    \o (IF c.nonlinear_factors /\ local_relin THEN <<"relinearise">> ELSE <<>>)
    \o <<"messages", "beliefs">>

RunPhase(S, phase, c, local_relin) ==
    CASE phase = "robustify"   -> robustify_all_factors(S, 1)
      [] phase = "relinearise" -> relinearise_factors(S, c, 1)
      [] phase = "messages"    -> compute_all_messages(S, c, local_relin, 1)
      [] phase = "beliefs"     -> update_all_beliefs(S)

\* a raise in one call ends synchronous_iteration: the later calls are not made
RECURSIVE RunPlan(_, _, _, _, _)
RunPlan(S, plan, i, c, local_relin) ==
    IF i > Len(plan) \/ S.err # "none" THEN S
    ELSE RunPlan(RunPhase(S, plan[i], c, local_relin), plan, i + 1, c, local_relin)

\* FactorGraph.synchronous_iteration(local_relin, robustify)
synchronous_iteration(S, c, local_relin, robustify) ==
    RunPlan(S, SyncPlan(c, local_relin, robustify), 1, c, local_relin)

\* ------------------------------------------------------------------------
\* State
\* ------------------------------------------------------------------------

VARIABLES
    cfg,          \* FactorGraph: nonlinear_factors, eta_damping, beta,
                  \*   num_undamped_iters, min_linear_iters
    var_nodes,    \* the VariableNode objects, by variableID
    factor_objs,  \* the Factor objects, by factorID (a pruned factor stays an object)
    factors,      \* FactorGraph.factors: the list of factorIDs in the graph
    err,          \* "none", or the exception the last call raised (uncaught: the run ends)
    log,          \* the calls that returned inside the last graph operation
    call,         \* the last graph operation and its arguments
    pre,          \* the graph's list and objects as they were when it was called
    run,          \* one record per iteration of the current run of consecutive
                  \*   synchronous_iteration calls that relinearise locally
    calls,        \* number of graph operations called so far
    built         \* the priors the builder gave the variables

vars == <<cfg, var_nodes, factor_objs, factors, err, log, call, pre, run, calls, built>>

\* the most graph operations one behaviour calls
MaxCalls == 3


\* what the builder may configure
Dampings == {<<1, 2>>}

Betas == {Zero, One}

UndampedIters == {0, 1, 2}

MinLinearIters == {1, 2}

\* the priors the builder may give: unit precision on variables 0 and 2,
\* unit or no precision on variable 1
PriorChoices ==
    {[v \in VarIDs |-> [eta |-> IF v = 2 THEN One ELSE Zero,
                        lam |-> IF v = 1 THEN l ELSE One]] : l \in {Zero, One}}

LossTags == {"None", "huber", "constant", "tukey"}

LossValues == {300, 500}

Configs ==
    [nonlinear_factors : BOOLEAN, eta_damping : Dampings, beta : Betas,
     num_undamped_iters : UndampedIters, min_linear_iters : MinLinearIters]

\* the measurements the builder may give (gauss_noise_std is 1 everywhere)
MeasurementChoices ==
    {[f \in FactorIDs |-> CASE f = 0 -> z [] f = 1 -> R(2) [] f = 2 -> R(10)] :
        z \in {Zero, R(4)}}

NoCall == [op |-> "none", local_relin |-> FALSE, robustify |-> FALSE, losses |-> <<>>, v |-> 0]

HasOvf(S) ==
    \/ S.err = "OutOfBounds"
    \/ \E v \in DOMAIN S.vn :
          \/ IsOvf(S.vn[v].belief.eta) \/ IsOvf(S.vn[v].belief.lam)
          \/ IsOvf(S.vn[v].prior.eta) \/ IsOvf(S.vn[v].prior.lam)
          \/ IsOvf(S.vn[v].mu) \/ IsOvf(S.vn[v].Sigma)
    \/ \E f \in FactorIDs :
          LET F == S.fo[f]
          IN  \/ IsOvf(F.adaptive_gauss_noise_var)
              \/ \E i \in 1..Len(F.linpoint) : IsOvf(F.linpoint[i])
              \/ \E i \in 1..Len(F.adj_vIDs) :
                    \/ IsOvf(F.adj_beliefs[i].eta) \/ IsOvf(F.adj_beliefs[i].lam)
                    \/ IsOvf(F.messages[i].eta) \/ IsOvf(F.messages[i].lam)
                    \/ IsOvf(F.factor.eta[i])
                    \/ \E j \in 1..Len(F.adj_vIDs) : IsOvf(F.factor.lam[i][j])

\* the store the next operation starts from
Cur ==
    [vn |-> var_nodes, fo |-> factor_objs, factors |-> factors,
     err |-> "none", log |-> <<>>]

\* what one completed iteration adds to run: the factors that relinearised
\* and the damping each message computation was given
IterRecord(l) ==
    [relin |-> {l[i].id : i \in {j \in 1..Len(l) : l[j].op = "relin"}},
     damping |-> {<<l[i].id, l[i].damping>> : i \in {j \in 1..Len(l) : l[j].op = "messages"}}]

\* the store S becomes the state
Install(S) ==
    /\ ~HasOvf(S)
    /\ var_nodes' = S.vn
    /\ factor_objs' = S.fo
    /\ factors' = S.factors
    /\ err' = S.err
    /\ log' = S.log

\* the operation c was called on the current state and left the store S;
\* relin_iter says that it was a synchronous_iteration that relinearises
\* locally, which extends run when it returns
Commit(S, c, relin_iter, bound) ==
    /\ err = "none"
    /\ calls < bound
    /\ \E T \in {S} :
          /\ Install(T)
          /\ run' = IF relin_iter /\ T.err = "none"
                    THEN Append(run, IterRecord(T.log)) ELSE <<>>
    /\ call' = c
    /\ pre' = [factors |-> factors, vn |-> var_nodes, fo |-> factor_objs]
    /\ calls' = calls + 1
    /\ UNCHANGED <<cfg, built>>

\* The graph as the builder leaves it: the objects constructed, priors and
\* adjacency set, and the factors either as constructed (all zero) or
\* linearised at the linpoint they hold by compute_factor.
InitWith(configs, priors, measurements, tags, linearised) ==
    /\ cfg \in configs
    /\ built \in priors
    /\ \E Measurement \in measurements, tag \in tags, lin \in linearised :
          LET S0 == [vn |-> [v \in VarIDs |-> VariableNode(v, built[v])],
                     fo |-> [f \in FactorIDs |->
                               Factor(f, Measurement[f], One, IF f = 0 THEN "None" ELSE tag)],
                     factors |-> <<0, 1, 2>>, err |-> "none", log |-> <<>>]
              S1 == IF lin THEN linearise_at_linpoint(S0, 1) ELSE S0
          IN  /\ var_nodes = S1.vn
              /\ factor_objs = S1.fo
              /\ factors = S1.factors
              /\ pre = [factors |-> S1.factors, vn |-> S1.vn, fo |-> S1.fo]
    /\ err = "none"
    /\ log = <<>>
    /\ call = NoCall
    /\ run = <<>>
    /\ calls = 0

\* ------------------------------------------------------------------------
\* Graph operations
\* ------------------------------------------------------------------------

SynchronousIteration ==
    \E local_relin \in BOOLEAN, robustify \in BOOLEAN :
        Commit(synchronous_iteration(Cur, cfg, local_relin, robustify),
               [NoCall EXCEPT !.op = "synchronous_iteration",
                              !.local_relin = local_relin, !.robustify = robustify],
               cfg.nonlinear_factors /\ local_relin, MaxCalls)

ComputeAllMessages ==
    \E local_relin \in BOOLEAN :
        Commit(compute_all_messages(Cur, cfg, local_relin, 1),
               [NoCall EXCEPT !.op = "compute_all_messages", !.local_relin = local_relin],
               FALSE, MaxCalls)

UpdateAllBeliefs ==
    Commit(update_all_beliefs(Cur), [NoCall EXCEPT !.op = "update_all_beliefs"], FALSE, MaxCalls)

UpdateBelief ==
    \E v \in VarIDs :
        Commit(Logged(update_belief(Cur, v), "belief", v, Zero),
               [NoCall EXCEPT !.op = "update_belief", !.v = v], FALSE, MaxCalls)

ComputeAllFactors ==
    Commit(compute_all_factors(Cur, 1), [NoCall EXCEPT !.op = "compute_all_factors"], FALSE, MaxCalls)

RobustifyAllFactors ==
    Commit(robustify_all_factors(Cur, 1), [NoCall EXCEPT !.op = "robustify_all_factors"], FALSE, MaxCalls)

RelineariseFactors ==
    Commit(relinearise_factors(Cur, cfg, 1), [NoCall EXCEPT !.op = "relinearise_factors"], FALSE, MaxCalls)

RemoveOutlier ==
    \E losses \in [1..Len(factors) -> LossValues] :
        Commit(remove_outlier(Cur, losses),
               [NoCall EXCEPT !.op = "remove_outlier", !.losses = losses], FALSE, MaxCalls)

ComputeFactorsAtLinpoint ==
    Commit(linearise_at_linpoint(Cur, 1), [NoCall EXCEPT !.op = "compute_factor"], FALSE, MaxCalls)

\* the configurations of the general driver
DriverConfigs ==
    {c \in Configs : c.beta = Zero /\ c.num_undamped_iters = 1 /\ c.min_linear_iters = 1}

DriverMeasurements == {m \in MeasurementChoices : m[0] # Zero}

Init == InitWith(DriverConfigs, PriorChoices, DriverMeasurements, LossTags, BOOLEAN)

Next ==
    \/ SynchronousIteration
    \/ ComputeAllMessages
    \/ UpdateAllBeliefs
    \/ UpdateBelief
    \/ ComputeAllFactors
    \/ RobustifyAllFactors
    \/ RelineariseFactors
    \/ ComputeFactorsAtLinpoint
    \/ RemoveOutlier

Spec == Init /\ [][Next]_vars

\* ------------------------------------------------------------------------
\* The relinearising solver loop: nonlinear_factors is set, the factors are
\* linearised, the beliefs are initialised by one sweep and then
\* synchronous_iteration is called again and again with local_relin=True.
\* ------------------------------------------------------------------------

MaxIters == 7

RelinConfigs == {c \in Configs : c.nonlinear_factors}

RegularPriors == {p \in PriorChoices : \A v \in VarIDs : p[v].lam # Zero}

InitRelin ==
    InitWith(RelinConfigs, RegularPriors, MeasurementChoices, {"None", "huber"}, {TRUE})

InitialSweep ==
    /\ calls = 0
    /\ Commit(update_all_beliefs(Cur), [NoCall EXCEPT !.op = "update_all_beliefs"],
              FALSE, MaxIters)

RelinIteration ==
    \E robustify \in BOOLEAN :
        /\ calls > 0
        /\ Commit(synchronous_iteration(Cur, cfg, TRUE, robustify),
                  [NoCall EXCEPT !.op = "synchronous_iteration",
                                 !.local_relin = TRUE, !.robustify = robustify],
                  TRUE, MaxIters)

NextRelin ==
    \/ InitialSweep
    \/ RelinIteration

SpecRelin == InitRelin /\ [][NextRelin]_vars

\* ------------------------------------------------------------------------
\* The diagnostic query: graphs of one, two or three variables (variables
\* 0..n-1 and the factors over them), on which joint_distribution_inf is
\* called between message computations and belief updates.
\* ------------------------------------------------------------------------

MaxJointCalls == 3

\* the factors all of whose variables are among the first n
FactorsAmong(n) == SelectSeq(<<0, 1, 2>>, LAMBDA f : \A k \in 1..Len(AdjVarNodes(f)) : AdjVarNodes(f)[k] < n)

\* self.var_nodes of the graph
JointVarNodes == SubSeq(VarOrder, 1, Cardinality(DOMAIN var_nodes))

InitJoint ==
    /\ cfg \in DriverConfigs
    /\ built \in RegularPriors
    /\ \E n \in 1..3, Measurement \in DriverMeasurements, lin \in BOOLEAN :
          LET fs == FactorsAmong(n)
              S0 == [vn |-> [v \in 0..(n - 1) |->
                               [VariableNode(v, built[v]) EXCEPT
                                   !.adj_factors = SelectSeq(@, LAMBDA f : InSeqOf(fs, f))]],
                     fo |-> [f \in FactorIDs |-> Factor(f, Measurement[f], One, "None")],
                     factors |-> fs, err |-> "none", log |-> <<>>]
              S1 == IF lin THEN linearise_at_linpoint(S0, 1) ELSE S0
          IN  /\ var_nodes = S1.vn
              /\ factor_objs = S1.fo
              /\ factors = S1.factors
              /\ pre = [factors |-> S1.factors, vn |-> S1.vn, fo |-> S1.fo]
    /\ err = "none"
    /\ log = <<>>
    /\ call = NoCall
    /\ run = <<>>
    /\ calls = 0

JointDistributionInf ==
    Commit(joint_distribution_inf(Cur, JointVarNodes),
           [NoCall EXCEPT !.op = "joint_distribution_inf"], FALSE, MaxJointCalls)

JointUpdateBelief ==
    \E v \in DOMAIN var_nodes :
        Commit(Logged(update_belief(Cur, v), "belief", v, Zero),
               [NoCall EXCEPT !.op = "update_belief", !.v = v], FALSE, MaxJointCalls)

JointComputeAllMessages ==
    Commit(compute_all_messages(Cur, cfg, FALSE, 1),
           [NoCall EXCEPT !.op = "compute_all_messages"], FALSE, MaxJointCalls)

NextJoint ==
    \/ JointDistributionInf
    \/ JointUpdateBelief
    \/ JointComputeAllMessages

SpecJoint == InitJoint /\ [][NextJoint]_vars

\* ------------------------------------------------------------------------
\* Properties
\* ------------------------------------------------------------------------

InSeq(x, seq) == \E i \in 1..Len(seq) : seq[i] = x

\* adjacency is mutually consistent for the factors of the list `fs`:
\* a factor of the graph is in adj_factors of exactly its adj_var_nodes
Consistent(fs, vn, fo) ==
    \A f \in FactorIDs : \A v \in VarIDs :
        InSeq(f, fs) => (InSeq(f, vn[v].adj_factors) <=> InSeq(v, fo[f].adj_vIDs))

\* no variable lists a factor that is not in the graph
NoStaleFactor(fs, vn) ==
    \A v \in VarIDs : \A f \in FactorIDs : InSeq(f, vn[v].adj_factors) => InSeq(f, fs)

\* C2: after remove_outlier on a graph with mutually consistent adjacency,
\* every pruned factor is absent from every variable's adj_factors and the
\* remaining factors and their variables list each other.
C2_AdjacencyAfterPrune ==
    (/\ call.op = "remove_outlier"
     /\ Consistent(pre.factors, pre.vn, pre.fo)
     /\ NoStaleFactor(pre.factors, pre.vn))
    => (/\ NoStaleFactor(factors, var_nodes)
        /\ Consistent(factors, var_nodes, factor_objs))

\* the positions of factor_loss_list whose loss is at or below the threshold
KeptPositions == {i \in 1..Len(pre.factors) : call.losses[i] <= OutlierThreshold}

\* C6: remove_outlier(losses) removes from the factor list exactly the
\* factors whose loss exceeds 300 and keeps the others in their order.
C6_PrunesExactlyAboveThreshold ==
    call.op = "remove_outlier" =>
        /\ Len(factors) = Cardinality(KeptPositions)
        /\ \A i \in KeptPositions :
              factors[Cardinality({j \in KeptPositions : j <= i})] = pre.factors[i]

\* the spec's scenario: the third of three losses is above the threshold,
\* one of the others sits exactly on it
C6_Witness ==
    /\ call.op = "remove_outlier"
    /\ call.losses = <<300, 300, 500>>
    /\ pre.factors = <<0, 1, 2>>
    /\ factors = <<0, 1>>

\* prior plus the messages the adjacent factors hold for variable v
RECURSIVE Aggregate(_, _, _, _)
Aggregate(v, adj, fo, i) ==
    IF i > Len(adj) THEN var_nodes[v].prior
    ELSE LET rest == Aggregate(v, adj, fo, i + 1)
             m    == fo[adj[i]].messages[IndexOf(fo[adj[i]].adj_vIDs, v)]
         IN  [eta |-> RAdd(rest.eta, m.eta), lam |-> RAdd(rest.lam, m.lam)]

Aggregated(v) == Aggregate(v, var_nodes[v].adj_factors, factor_objs, 1)

BeliefOps == {"synchronous_iteration", "update_all_beliefs", "update_belief"}

\* the variables whose update_belief returned in the last operation
Updated == {log[i].id : i \in {j \in 1..Len(log) : log[j].op = "belief"}}

\* C7: propagation never mutates a prior: every prior keeps the value it
\* was built with, and a belief just updated is that prior plus the
\* incoming messages.
C7_PriorNeverMutated ==
    /\ \A v \in VarIDs : var_nodes[v].prior = built[v]
    /\ call.op \in BeliefOps =>
          \A v \in Updated : var_nodes[v].belief = Aggregated(v)

\* an iteration returned and moved a belief off its prior
C7_Witness ==
    /\ call.op = "synchronous_iteration"
    /\ err = "none"
    /\ \E v \in VarIDs : var_nodes[v].belief.lam # var_nodes[v].prior.lam
    /\ \E v \in VarIDs : var_nodes[v].belief.eta # var_nodes[v].prior.eta

\* C4: after every synchronous_iteration that returns, every factor of
\* the graph holds in adj_beliefs[i] the current belief of adj_var_nodes[i].
C4_AdjBeliefsCurrent ==
    (call.op = "synchronous_iteration" /\ err = "none") =>
        \A i \in 1..Len(factors) :
            LET F == factor_objs[factors[i]]
            IN  \A k \in 1..Len(F.adj_vIDs) :
                    F.adj_beliefs[k] = var_nodes[F.adj_vIDs[k]].belief

\* an iteration returned on a pruned graph, with beliefs off their priors
C4_Witness ==
    /\ call.op = "synchronous_iteration"
    /\ err = "none"
    /\ Len(factors) = 2
    /\ \A v \in VarIDs : var_nodes[v].belief.lam # Zero
    /\ \E v \in VarIDs : var_nodes[v].belief.lam # var_nodes[v].prior.lam

\* the phase of synchronous_iteration a logged call belongs to
PhaseOf(op) ==
    CASE op = "robustify" -> 1
      [] op \in {"relin", "linear"} -> 2
      [] op = "messages" -> 3
      [] op = "belief" -> 4
      [] OTHER -> 0

LogAt(k) == {i \in 1..Len(log) : PhaseOf(log[i].op) = k}

IdsAt(k) == {log[i].id : i \in LogAt(k)}

FactorSet == {factors[i] : i \in 1..Len(factors)}

\* C5: within one synchronous_iteration the phases run in the order
\* robustify (only if robustify), relinearise (only if nonlinear_factors and
\* local_relin), messages, beliefs, each at most once per factor or
\* variable; no factor computes messages before every factor was
\* robustified and relinearisation-checked, and no variable updates its
\* belief before every factor committed its messages.
C5_PhaseOrder ==
    call.op = "synchronous_iteration" =>
        /\ \A i, j \in 1..Len(log) : i < j => PhaseOf(log[i].op) <= PhaseOf(log[j].op)
        /\ \A k \in 1..4 : Cardinality(LogAt(k)) = Cardinality(IdsAt(k))
        /\ LogAt(1) # {} => call.robustify
        /\ LogAt(2) # {} => (cfg.nonlinear_factors /\ call.local_relin)
        /\ LogAt(3) # {} =>
              /\ call.robustify => IdsAt(1) = FactorSet
              /\ (cfg.nonlinear_factors /\ call.local_relin) => IdsAt(2) = FactorSet
        /\ LogAt(4) # {} => IdsAt(3) = FactorSet
        /\ err = "none" =>
              /\ IdsAt(4) = VarIDs
              /\ IdsAt(3) = FactorSet
              /\ call.robustify => IdsAt(1) = FactorSet
              /\ (cfg.nonlinear_factors /\ call.local_relin) => IdsAt(2) = FactorSet

\* an iteration with all four phases returned
C5_Witness ==
    /\ call.op = "synchronous_iteration"
    /\ call.robustify /\ call.local_relin /\ cfg.nonlinear_factors
    /\ err = "none"
    /\ Len(factors) = 3
    /\ Len(log) = 12
    /\ \E i \in 1..Len(log) : log[i].op = "relin"

KnownLosses == {"None", "huber", "constant"}

\* C8: robustify_loss on a factor whose loss tag is not None, 'huber' or
\* 'constant' does not return normally (it ends in UnknownLoss).
C8_UnknownLossRaises ==
    \A i \in 1..Len(log) :
        log[i].op = "robustify" => factor_objs[log[i].id].loss \in KnownLosses

\* the store synchronous_iteration was called on
PreStore ==
    [vn |-> pre.vn, fo |-> pre.fo, factors |-> pre.factors, err |-> "none", log |-> <<>>]

\* the store as the last synchronous_iteration left it when it entered the belief sweep
BeforeSweep ==
    LET plan == SyncPlan(cfg, call.local_relin, call.robustify)
    IN  RunPlan(PreStore, SubSeq(plan, 1, Len(plan) - 1), 1, cfg, call.local_relin)

\* the last operation was a synchronous_iteration that reached the belief sweep
ReachedSweep ==
    /\ call.op = "synchronous_iteration"
    /\ IdsAt(3) = FactorSet
    /\ err \in {"none", "NonInvertible"}
    /\ err = "NonInvertible" => BeforeSweep.err = "none"

\* position in var_nodes of the variable whose update_belief raised
FailedAt == Cardinality(LogAt(4)) + 1

SlotsOf(v) ==
    {<<f, k>> \in FactorIDs \X {1, 2} :
        k <= Len(factor_objs[f].adj_vIDs) /\ factor_objs[f].adj_vIDs[k] = v}

\* C9: when in the belief sweep of synchronous_iteration a variable's
\* aggregated precision is singular, the iteration ends in NonInvertible:
\* no later variable is updated, the failing variable writes no adj_beliefs
\* slot, and what was changed before (messages, earlier beliefs and their
\* adj_beliefs slots) stays.
C9_SweepAbort ==
    ReachedSweep =>
        /\ (\E v \in VarIDs : Aggregated(v).lam = Zero) <=> err = "NonInvertible"
        /\ err = "NonInvertible" =>
              /\ FailedAt <= Len(VarOrder)
              /\ Aggregated(VarOrder[FailedAt]).lam = Zero
              /\ \A p \in 1..Len(VarOrder) :
                    LET v == VarOrder[p]
                    IN  /\ p > FailedAt => var_nodes[v] = pre.vn[v]
                        /\ p >= FailedAt =>
                              \A s \in SlotsOf(v) :
                                  factor_objs[s[1]].adj_beliefs[s[2]]
                                      = pre.fo[s[1]].adj_beliefs[s[2]]
                        /\ p < FailedAt =>
                              /\ var_nodes[v].belief = Aggregated(v)
                              /\ \A s \in SlotsOf(v) :
                                    InSeq(s[1], var_nodes[v].adj_factors) =>
                                        factor_objs[s[1]].adj_beliefs[s[2]]
                                            = var_nodes[v].belief
              /\ \A f \in FactorIDs :
                    /\ factor_objs[f].messages = BeforeSweep.fo[f].messages
                    /\ factor_objs[f].factor = BeforeSweep.fo[f].factor

\* the sweep raised at the second of three variables, after messages changed
C9_Witness ==
    /\ ReachedSweep
    /\ err = "NonInvertible"
    /\ FailedAt = 2
    /\ var_nodes[VarOrder[1]].belief # pre.vn[VarOrder[1]].belief
    /\ \E f \in FactorIDs : factor_objs[f].messages # pre.fo[f].messages

Perms ==
    {p \in [1..3 -> VarIDs] : \A i, j \in 1..3 : i # j => p[i] # p[j]}

SweepIn(order) == UpdateBeliefsFrom(Cur, order, 1)

\* C10 as stated: from the same messages, the belief sweep in any order of
\* the variables leaves the same beliefs and the same adj_beliefs.
C10_AnyOrderSameResult ==
    err = "none" =>
        \A p \in Perms :
            /\ SweepIn(p).vn = SweepIn(VarOrder).vn
            /\ SweepIn(p).fo = SweepIn(VarOrder).fo

\* C10 amended: a sweep raises in one order exactly when it raises in every
\* order, and when it does not raise, every order leaves the same beliefs
\* and the same adj_beliefs.
C10_AnyOrderSameResultUnlessRaise ==
    err = "none" =>
        \A p \in Perms :
            /\ SweepIn(p).err = SweepIn(VarOrder).err
            /\ SweepIn(VarOrder).err = "none" =>
                  /\ SweepIn(p).vn = SweepIn(VarOrder).vn
                  /\ SweepIn(p).fo = SweepIn(VarOrder).fo

\* a state whose sweep returns and moves the beliefs of two variables that
\* share a factor
C10_Witness ==
    /\ err = "none"
    /\ SweepIn(VarOrder).err = "none"
    /\ SweepIn(VarOrder).vn[0].belief # var_nodes[0].belief
    /\ SweepIn(VarOrder).vn[1].belief # var_nodes[1].belief
    /\ InSeq(1, var_nodes[0].adj_factors) /\ InSeq(1, var_nodes[1].adj_factors)
    /\ \E k \in 1..2 : factor_objs[1].messages[k].lam # Zero

\* C1: in a run of consecutive synchronous_iteration calls with
\* nonlinear_factors and local_relin true, a factor relinearises at most
\* once in any min_linear_iters consecutive iterations: two of its
\* relinearisations are at least min_linear_iters iterations apart.
C1_RelinAtMostOncePerWindow ==
    \A f \in FactorIDs : \A i, j \in 1..Len(run) :
        (i < j /\ f \in run[i].relin /\ f \in run[j].relin)
            => j - i >= cfg.min_linear_iters

\* a factor relinearised twice in one run, under a window longer than one
C1_Witness ==
    /\ cfg.min_linear_iters >= 2
    /\ \E f \in FactorIDs : \E i, j \in 1..Len(run) :
          i < j /\ f \in run[i].relin /\ f \in run[j].relin

\* the factor f, relinearised in iteration i of run, computes its messages
\* undamped in the iterations before i + num_undamped_iters
UndampedUntilRearm(f, i) ==
    \A k \in i..Len(run) :
        k < i + cfg.num_undamped_iters => <<f, Zero>> \in run[k].damping

\* ... and with the graph's eta_damping in iteration i + num_undamped_iters
RearmedOnTime(f, i) ==
    i + cfg.num_undamped_iters <= Len(run)
        => <<f, cfg.eta_damping>> \in run[i + cfg.num_undamped_iters].damping

RelinAgainWithin(f, i) ==
    \E k \in (i + 1)..(i + cfg.num_undamped_iters) : k <= Len(run) /\ f \in run[k].relin

\* C3 as stated: whenever a factor relinearises its eta_damping is set to
\* 0, and it is set back to the graph's eta_damping for the message
\* computation exactly num_undamped_iters iterations later, for every
\* num_undamped_iters >= 0 and min_linear_iters >= 1.
C3_RearmedAfterUndampedIters ==
    \A f \in FactorIDs : \A i \in 1..Len(run) :
        f \in run[i].relin => (UndampedUntilRearm(f, i) /\ RearmedOnTime(f, i))

\* C3 amended: whenever a factor relinearises its eta_damping is set to 0
\* and stays 0 for the next num_undamped_iters message computations; it is
\* set back to the graph's eta_damping exactly num_undamped_iters
\* iterations later unless the factor relinearised again in between, which
\* happens only if num_undamped_iters > min_linear_iters.
C3_RearmedUnlessRelinAgain ==
    \A f \in FactorIDs : \A i \in 1..Len(run) :
        f \in run[i].relin =>
            /\ UndampedUntilRearm(f, i)
            /\ ~RelinAgainWithin(f, i) => RearmedOnTime(f, i)
            /\ RelinAgainWithin(f, i) => cfg.num_undamped_iters > cfg.min_linear_iters

\* a factor relinearised, sent undamped messages and was re-armed later
C3_Witness ==
    /\ cfg.num_undamped_iters >= 1
    /\ \E f \in FactorIDs : \E i \in 1..Len(run) :
          /\ f \in run[i].relin
          /\ <<f, Zero>> \in run[i].damping
          /\ i + cfg.num_undamped_iters <= Len(run)
          /\ <<f, cfg.eta_damping>> \in run[i + cfg.num_undamped_iters].damping

\* the factor linearised at F.linpoint with the nominal variance
NominalFactor(F) ==
    compute_factor([F EXCEPT !.adaptive_gauss_noise_var = F.gauss_noise_var],
                   F.linpoint).factor

\* the Mahalanobis distance of the measurement from the prediction at linpoint
MahalanobisAt(F) ==
    RDiv(RAbs(RSub(F.measurement, MeasFn(MeasKind(F.factorID), F.linpoint))),
         RSqrt(F.gauss_noise_var))

\* the variance the loss rule gives at the current linpoint:
\* Huber with d > tau: sigma^2 d^2 / (2 tau d - tau^2); Constant with
\* d > tau: d^2; otherwise sigma^2
RuleVar(F) ==
    LET d   == MahalanobisAt(F)
        tau == F.mahalanobis_threshold
    IN  IF F.loss = "huber" /\ RGt(d, tau)
        THEN RDiv(RMul(F.gauss_noise_var, RMul(d, d)),
                  RSub(RMul(R(2), RMul(tau, d)), RMul(tau, tau)))
        ELSE IF F.loss = "constant" /\ RGt(d, tau) THEN RMul(d, d)
        ELSE F.gauss_noise_var

\* the stored factor of F is its nominal factor divided by
\* adaptive_gauss_noise_var / gauss_noise_var
Reweighted(F) ==
    LET q == RDiv(F.adaptive_gauss_noise_var, F.gauss_noise_var)
        N == NominalFactor(F)
        k == Len(F.adj_vIDs)
    IN  /\ \A i \in 1..k : F.factor.eta[i] = RDiv(N.eta[i], q)
        /\ \A i, j \in 1..k : F.factor.lam[i][j] = RDiv(N.lam[i][j], q)

RobustifyOps == {"robustify_all_factors"}

\* C11: robustify_loss only reweights. For every factor a
\* robustify_all_factors call robustified (a factor that was the product of
\* a linearisation at its linpoint), also when the call before was a
\* robustify_all_factors too: linpoint is unchanged,
\* adaptive_gauss_noise_var is the value the loss rule gives at linpoint,
\* and the stored factor is the nominal factor divided by
\* adaptive_gauss_noise_var / gauss_noise_var.
C11_RobustifyOnlyReweights ==
    call.op \in RobustifyOps =>
        \A i \in 1..Len(log) :
            LET f == log[i].id
            IN  (log[i].op = "robustify" /\ Reweighted(pre.fo[f])) =>
                    /\ factor_objs[f].linpoint = pre.fo[f].linpoint
                    /\ factor_objs[f].adaptive_gauss_noise_var = RuleVar(factor_objs[f])
                    /\ Reweighted(factor_objs[f])

\* the second of two consecutive robustify_all_factors calls on a Huber
\* factor with z = 10, sigma = 1, prediction 0, tau = 2: the variance is 100/36
C11_Witness ==
    /\ call.op \in RobustifyOps
    /\ err = "none"
    /\ Len(log) = 3
    /\ factor_objs[2].loss = "huber"
    /\ Reweighted(pre.fo[2])
    /\ pre.fo[2].adaptive_gauss_noise_var = <<25, 9>>
    /\ factor_objs[2].adaptive_gauss_noise_var = <<25, 9>>
    /\ factor_objs[2].factor.lam[1][1] = <<9, 25>>

\* C12: joint_distribution_inf leaves every variable's prior (eta, lam)
\* equal to its value at construction, on every graph with one or more
\* variables, however often and between whatever iterations it is called.
C12_JointLeavesPriors ==
    \A v \in DOMAIN var_nodes : var_nodes[v].prior = built[v]

\* the factors whose compute_messages returned in the last operation
Messaged == {log[i].id : i \in {j \in 1..Len(log) : log[j].op = "messages"}}

\* C13: compute_messages is a two-phase update. After compute_all_messages,
\* every message of every factor whose compute_messages returned is the
\* value computed from that factor's messages (cavity terms and damping
\* term), adj_beliefs and stored factor as they were before the call, so it
\* does not depend on the order of the factor's neighbours; a factor whose
\* call raised or did not run keeps its messages; and no variable's belief,
\* no adj_beliefs entry, no stored factor and no linpoint has changed.
C13_MessagesTwoPhase ==
    call.op = "compute_all_messages" =>
        /\ var_nodes = pre.vn
        /\ \A f \in FactorIDs :
              /\ factor_objs[f].adj_beliefs = pre.fo[f].adj_beliefs
              /\ factor_objs[f].factor = pre.fo[f].factor
              /\ factor_objs[f].linpoint = pre.fo[f].linpoint
              /\ f \notin Messaged => factor_objs[f].messages = pre.fo[f].messages
        /\ \A i \in 1..Len(log) :
              log[i].op = "messages" =>
                  LET F == pre.fo[log[i].id]
                  IN  \A v \in 1..Len(F.adj_vIDs) :
                          LET m == MessageTo(F, F.messages, v, log[i].damping)
                          IN  /\ m.ok
                              /\ factor_objs[log[i].id].messages[v]
                                     = [eta |-> m.eta, lam |-> m.lam]

\* a two-variable factor that held nonzero messages recomputed both of them
C13_Witness ==
    /\ call.op = "compute_all_messages"
    /\ err = "none"
    /\ 1 \in Messaged
    /\ \A v \in 1..2 :
          /\ pre.fo[1].messages[v].lam # Zero
          /\ factor_objs[1].messages[v] # pre.fo[1].messages[v]

=============================================================================
